---- MODULE Spec2Model ----
(***************************************************************************)
(* ComplianceBinder backend (backend/app): the request handlers of main.py *)
(* over the tables of models.py, with the token and password functions of  *)
(* security.py, the start-up check of config.py and the metrics of         *)
(* monitoring.py.  Every handler is one action; register is two steps (the *)
(* existence check, then the commit) because sync handlers run on a thread *)
(* pool and nothing but the unique index on user.email orders two of them. *)
(* The last completed request and its response are kept in resp, with the  *)
(* audit records the handler emitted while serving it.                     *)
(* Rows carry the columns the handlers decide on (owner_id, binder_id,     *)
(* status, due_date, filename, original_name, content_type, uploaded_at,   *)
(* email, password_hash); the free-text columns that are only stored and   *)
(* echoed are left out.  A path or a file name is the sequence of its      *)
(* components, the text between two path separators.                       *)
(***************************************************************************)
EXTENDS Integers, Sequences, FiniteSets, Bags, TLC

VARIABLES
    users,      \* table user: sequence of rows, id = position
    binders,    \* table binder
    tasks,      \* table task
    documents,  \* table document
    files,      \* settings.upload_dir: stored name |-> bytes on disk
    pending,    \* register requests past the existence check, not yet committed
    issued,     \* tokens handed out by login, with the user id they were minted for
    now,        \* wall clock, in minutes
    resp,       \* the last completed request with its response
    process     \* the server process: ENV, settings.secret_key, how far it got

vars == <<users, binders, tasks, documents, files, pending, issued, now, resp, process>>
db == <<users, binders, tasks, documents, files>>

----------------------------------------------------------------------------
(* Bounds of the exploration *)

MaxRows == 3        \* Spec: rows of binder + task + document together
MaxInFlight == 2    \* SpecAuth: register requests between check and commit
ClockRows == 1      \* SpecClock: rows of binder + task + document together
ClockTokens == 1    \* SpecClock: tokens handed out by login to one identity
FaultRows == 3      \* SpecFaults: rows of binder + task + document together
ErrorRows == 2      \* SpecErrors: rows of binder + task + document together
ReportRows == 3     \* SpecReport: rows of binder + task + document together
TokenCap == 2       \* SpecTokens: tokens handed out by login, all identities together
TokenRows == 1      \* SpecTokens: rows of binder

(* Inputs *)
NoBytes == [bytes |-> "", size |-> 0]
Emails == {"a@x.com", "b@x.com"}
Passwords == {"pw1", "pw2"}
RegistrationOrder == <<"a@x.com", "b@x.com">>
Salts == {"s1", "s2"}

(* Program constants *)
access_token_expire_minutes == 60 * 24 * 7
secret_key == "server-secret"
NoSecret == ""      \* settings.secret_key when SECRET_KEY is not set: None
NoMinutes == -1     \* expires_minutes when the caller passes none: None
OtherKey == "other-secret"
upload_dir == <<".", "uploads">>
max_upload_size_bytes == 10 * 1024 * 1024
allowed_content_types == {"application/pdf", "image/png", "image/jpeg"}

\* an empty storage root
NoFiles == [name \in {} |-> NoBytes]

\* What clients upload: a report of exactly the largest size allowed, a
\* second file of the same name with other bytes, one byte over that size,
\* and a text file under a name that climbs out of the directory.
UploadFile(filename, content_type, bytes, size) ==
    [filename |-> filename, content_type |-> content_type,
     data |-> [bytes |-> bytes, size |-> size]]

Report == UploadFile(<<"a.pdf">>, "application/pdf", "A", max_upload_size_bytes)
Oversized == UploadFile(<<"a.pdf">>, "application/pdf", "B", max_upload_size_bytes + 1)
Passwd == UploadFile(<<"..", "..", "etc", "passwd">>, "text/plain", "C", 1)
Uploads == {Report, Oversized, Passwd}

\* Dates are day numbers (date.toordinal) and NoDate is None; the clock
\* starts at midnight of StartDay, and DateMax is date.max, 9999-12-31.
NoDate == 0
StartDay == 1
MinutesPerDay == 24 * 60
DateMax == 3652059

\* The JSON body of a create-task request: the fields TaskCreate knows, of
\* which the model keeps due_date, and a status, which it does not know.
TaskJson(due_date, status) == [due_date |-> due_date, status |-> status]

\* a task without a due date, sent with a status of "done"
Undated == TaskJson(NoDate, "done")

\* The due dates clients ask for: none, the day the clock starts, the day
\* after, and the last day there is.
DueDates == {NoDate, StartDay, StartDay + 1, DateMax}

\* midnight of StartDay and of the two days after
Midnights == {0, MinutesPerDay, 2 * MinutesPerDay}

\* The lifetimes a caller of create_access_token asks for: none, zero
\* minutes, one minute, and the default spelt out.
Lifetimes == {NoMinutes, 0, 1, access_token_expire_minutes}

\* The instants at which requests arrive: start-up, the last minute a token
\* minted at start-up is good for, and the minute after.
Instants == {0, access_token_expire_minutes, access_token_expire_minutes + 1}

----------------------------------------------------------------------------
(* security.py *)

hash_password(password, salt) == [salt |-> salt, digest |-> <<salt, password>>]

verify_password(password, password_hash) ==
    password_hash.digest = <<password_hash.salt, password>>

\* create_access_token, lines 21-24; expires_minutes is NoMinutes when the
\* caller passes none.  "expires_minutes or default" takes the default for
\* every falsy expires_minutes, None and 0.
create_access_token(subject, expires_minutes) ==
    LET minutes == IF expires_minutes = NoMinutes \/ expires_minutes = 0
                   THEN access_token_expire_minutes
                   ELSE expires_minutes IN
    [kind |-> "jwt", sub |-> subject, exp |-> now + minutes,
     sig |-> process.secret_key]

\* decode_token with the signature left unverified
decode_token_unverified(token) ==
    IF token.kind # "jwt" THEN [ok |-> FALSE, sub |-> ""]
    ELSE IF token.exp < now THEN [ok |-> FALSE, sub |-> ""]
    ELSE [ok |-> TRUE, sub |-> token.sub]

\* decode_token with the expiry left unverified
decode_token_no_expiry(token) ==
    IF token.kind # "jwt" THEN [ok |-> FALSE, sub |-> ""]
    ELSE IF token.sig # process.secret_key THEN [ok |-> FALSE, sub |-> ""]
    ELSE [ok |-> TRUE, sub |-> token.sub]

\* jwt.decode: a structure that parses, the signature of the server key, and
\* an expiry that is not in the past (exp < now is rejected).
decode_token(token) ==
    IF token.kind # "jwt" THEN [ok |-> FALSE, sub |-> ""]
    ELSE IF token.sig # process.secret_key THEN [ok |-> FALSE, sub |-> ""]
    ELSE IF token.exp < now THEN [ok |-> FALSE, sub |-> ""]
    ELSE [ok |-> TRUE, sub |-> token.sub]

\* date.today()
Today == StartDay + (now \div MinutesPerDay)

----------------------------------------------------------------------------
(* Requests and responses *)

NoToken == [kind |-> "absent", sub |-> "", exp |-> 0, sig |-> ""]
Garbage == [kind |-> "malformed", sub |-> "", exp |-> 0, sig |-> ""]
Forged(e) == [kind |-> "jwt", sub |-> e, exp |-> 3 * access_token_expire_minutes,
              sig |-> OtherKey]

IssuedTokens == {i.token : i \in issued}

\* What a client can put in the Authorization header: nothing, junk, a token
\* signed with a key that is not the server's, or a token some login returned.
Presentable(junk, forged) ==
    {NoToken} \cup junk \cup {Forged(e) : e \in forged} \cup IssuedTokens

NoBody == {}
NoFile == {}

\* A completed request: what was asked (op, token, arg, and in file the file
\* of an upload), when (at), and the answer (status, detail, body); me is the
\* identity the handler ran as, 0 for none.  fault is the step of the handler
\* that failed, emitted the records the handler gave to log_crud_event.
Response(op, token, arg, status, detail, me, body) ==
    [op |-> op, token |-> token, arg |-> arg, at |-> now, status |-> status,
     detail |-> detail, me |-> me, body |-> body,
     file |-> NoFile, fault |-> "none", emitted |-> <<>>]

\* An exception the handler does not catch: the framework answers 500.
ServerError(op, token, arg, me, fault) ==
    [Response(op, token, arg, 500, "Internal Server Error", me, NoBody)
        EXCEPT !.fault = fault]

\* select(User).where(User.email == email).first(): the id, 0 for None
UserByEmail(email) ==
    IF \E u \in 1..Len(users) : users[u].email = email
    THEN CHOOSE u \in 1..Len(users) :
            /\ users[u].email = email
            /\ \A v \in 1..Len(users) : users[v].email = email => u <= v
    ELSE 0

\* get_current_user with the query's where clause lost: the first row
get_current_user_first_row(token) ==
    IF token.kind = "absent"
    THEN [status |-> 401, detail |-> "Not authenticated", me |-> 0]
    ELSE LET payload == decode_token(token) IN
         IF ~payload.ok \/ payload.sub = ""
         THEN [status |-> 401, detail |-> "Invalid token", me |-> 0]
         ELSE IF Len(users) = 0
              THEN [status |-> 401, detail |-> "User not found", me |-> 0]
              ELSE [status |-> 200, detail |-> "", me |-> 1]

\* get_current_user over a table of sessions: a token is good only as long
\* as no later one was handed to the same identity
get_current_user_latest_only(token) ==
    IF token.kind = "absent"
    THEN [status |-> 401, detail |-> "Not authenticated", me |-> 0]
    ELSE LET payload == decode_token(token) IN
         IF ~payload.ok \/ payload.sub = ""
         THEN [status |-> 401, detail |-> "Invalid token", me |-> 0]
         ELSE LET user == UserByEmail(payload.sub) IN
              IF user = 0
              THEN [status |-> 401, detail |-> "User not found", me |-> 0]
              ELSE IF \E i \in issued : i.uid = user /\ i.token.exp > token.exp
              THEN [status |-> 401, detail |-> "Invalid token", me |-> 0]
              ELSE [status |-> 200, detail |-> "", me |-> user]

\* oauth2_scheme + get_current_user: [status, detail, me]
get_current_user(token) ==
    IF token.kind = "absent"
    THEN [status |-> 401, detail |-> "Not authenticated", me |-> 0]
    ELSE LET payload == decode_token(token) IN
         IF ~payload.ok \/ payload.sub = ""
         THEN [status |-> 401, detail |-> "Invalid token", me |-> 0]
         ELSE LET user == UserByEmail(payload.sub) IN
              IF user = 0
              THEN [status |-> 401, detail |-> "User not found", me |-> 0]
              ELSE [status |-> 200, detail |-> "", me |-> user]

----------------------------------------------------------------------------
(* config.py *)

\* a process as it starts: its environment, and the settings as loaded
Process(ENV, key) == [ENV |-> ENV, secret_key |-> key, state |-> "starting"]

\* str.lower on the names the model sets ENV to
lower(name) ==
    IF name = "PROD" THEN "prod"
    ELSE IF name = "Staging" THEN "staging"
    ELSE name

\* lines 54-56: the import of app.config raises RuntimeError
fail_fast(ENV, key) ==
    lower(ENV) \in {"prod", "production", "staging"} /\ key = NoSecret

\* The process imports app.config and, if that does not raise, comes up
\* (_startup) and serves.
startup ==
    /\ process.state = "starting"
    /\ process' = [process EXCEPT !.state =
                      IF fail_fast(process.ENV, process.secret_key)
                      THEN "failed" ELSE "serving"]
    /\ UNCHANGED <<db, pending, issued, now, resp>>

\* a process in production with its secret set, up and serving
Serving == [Process("production", secret_key) EXCEPT !.state = "serving"]

----------------------------------------------------------------------------
Init ==
    /\ users = <<>>
    /\ binders = <<>>
    /\ tasks = <<>>
    /\ documents = <<>>
    /\ files = NoFiles
    /\ pending = EmptyBag
    /\ issued = {}
    /\ now = 0
    /\ resp = Response("startup", NoToken, 0, 200, "", 0, NoBody)
    /\ process = Serving

----------------------------------------------------------------------------
(* Auth *)

\* register_check as an upsert: a known email gets the new password
register_check_upsert(email, password) ==
    IF UserByEmail(email) # 0
    THEN /\ users' = [users EXCEPT ![UserByEmail(email)].password_hash =
                                      hash_password(password, "s1")]
         /\ resp' = Response("register", NoToken, <<email, password>>, 400,
                             "Email already registered", 0, NoBody)
         /\ UNCHANGED <<binders, tasks, documents, files, pending, issued, now, process>>
    ELSE /\ pending' = pending (+) SetToBag({[email |-> email, password |-> password]})
         /\ UNCHANGED <<db, issued, now, resp, process>>

\* register, lines 85-88: the existence check
register_check(email, password) ==
    IF UserByEmail(email) # 0
    THEN /\ resp' = Response("register", NoToken, <<email, password>>, 400,
                             "Email already registered", 0, NoBody)
         /\ UNCHANGED <<db, pending, issued, now, process>>
    ELSE /\ pending' = pending (+) SetToBag({[email |-> email, password |-> password]})
         /\ UNCHANGED <<db, issued, now, resp, process>>

\* InsertUser into a table without the unique index
InsertUser_no_index(row) == [ok |-> TRUE, users |-> Append(users, row)]

\* INSERT under the unique index on user.email
InsertUser(row) ==
    IF \E u \in 1..Len(users) : users[u].email = row.email
    THEN [ok |-> FALSE, users |-> users]
    ELSE [ok |-> TRUE, users |-> Append(users, row)]

\* register, lines 90-94: hash, add, commit.  An IntegrityError of the commit
\* is not caught: the framework answers 500 and the session rolls back.
register_commit(r, salt) ==
    /\ BagIn(r, pending)
    /\ pending' = pending (-) SetToBag({r})
    /\ LET ins == InsertUser([email |-> r.email,
                              password_hash |-> hash_password(r.password, salt)]) IN
       /\ users' = ins.users
       /\ resp' = IF ins.ok
                  THEN Response("register", NoToken, <<r.email, r.password>>, 201, "",
                                0, NoBody)
                  ELSE Response("register", NoToken, <<r.email, r.password>>, 500,
                                "Internal Server Error", 0, NoBody)
    /\ UNCHANGED <<binders, tasks, documents, files, issued, now, process>>

\* schemas.Token
Token(access_token) == [access_token |-> access_token, token_type |-> "bearer"]

\* login_result with "and" for "or": only the email is checked
login_result_and(username, password) ==
    LET user == UserByEmail(username) IN
    IF user = 0
    THEN [status |-> 401, detail |-> "Bad credentials", me |-> 0, body |-> NoBody]
    ELSE [status |-> 200, detail |-> "", me |-> user,
          body |-> {Token(create_access_token(users[user].email, NoMinutes))}]

\* login_result telling an unknown email from a wrong password
login_result_tells(username, password) ==
    LET user == UserByEmail(username) IN
    IF user = 0
    THEN [status |-> 404, detail |-> "User not found", me |-> 0, body |-> NoBody]
    ELSE IF ~verify_password(password, users[user].password_hash)
    THEN [status |-> 401, detail |-> "Bad credentials", me |-> 0, body |-> NoBody]
    ELSE [status |-> 200, detail |-> "", me |-> user,
          body |-> {Token(create_access_token(users[user].email, NoMinutes))}]

\* login, lines 102-108: [status, detail, me, body]
login_result(username, password) ==
    LET user == UserByEmail(username) IN
    IF user = 0 \/ ~verify_password(password, users[user].password_hash)
    THEN [status |-> 401, detail |-> "Bad credentials", me |-> 0, body |-> NoBody]
    ELSE [status |-> 200, detail |-> "", me |-> user,
          body |-> {Token(create_access_token(users[user].email, NoMinutes))}]

login(username, password) ==
    LET r == login_result(username, password)
        minted == {[token |-> t.access_token, uid |-> r.me] : t \in r.body} IN
    /\ issued' = issued \cup minted
    /\ resp' = Response("login", NoToken, <<username, password>>, r.status, r.detail,
                        r.me, r.body)
    /\ UNCHANGED <<db, pending, now, process>>

\* create_access_token called on its own, with the lifetime the caller
\* chooses: the call and the token it returns
issue_token(subject, expires_minutes) ==
    /\ resp' = Response("create_access_token", NoToken, <<subject, expires_minutes>>,
                        200, "", 0, {create_access_token(subject, expires_minutes)})
    /\ UNCHANGED <<db, pending, issued, now, process>>

\* the clock moves on to a later instant
Tick(t) ==
    /\ t > now
    /\ now' = t
    /\ UNCHANGED <<db, pending, issued, resp, process>>

----------------------------------------------------------------------------
(* Binders *)

Denied(op, token, arg, auth) ==
    Response(op, token, arg, auth.status, auth.detail, auth.me, NoBody)

RowCount == Len(binders) + Len(tasks) + Len(documents)

\* _get_binder_or_404: [status, detail]
get_binder_or_404(binder_id, me) ==
    IF binder_id \notin 1..Len(binders) \/ binders[binder_id].owner_id # me
    THEN [status |-> 404, detail |-> "Binder not found"]
    ELSE [status |-> 200, detail |-> ""]

BindersOf(me) == {b \in 1..Len(binders) : binders[b].owner_id = me}
TasksOf(binder_id) == {t \in 1..Len(tasks) : tasks[t].binder_id = binder_id}
DocumentsOf(binder_id) == {d \in 1..Len(documents) : documents[d].binder_id = binder_id}

\* list_binders with the where clause lost: every binder
list_binders_unscoped(token) ==
    LET auth == get_current_user(token) IN
    /\ resp' = IF auth.status # 200
               THEN Denied("list_binders", token, 0, auth)
               ELSE Response("list_binders", token, 0, 200, "", auth.me,
                             1..Len(binders))
    /\ UNCHANGED <<db, pending, issued, now, process>>

list_binders(token) ==
    LET auth == get_current_user(token) IN
    /\ resp' = IF auth.status # 200
               THEN Denied("list_binders", token, 0, auth)
               ELSE Response("list_binders", token, 0, 200, "", auth.me, BindersOf(auth.me))
    /\ UNCHANGED <<db, pending, issued, now, process>>

\* log_crud_event: the fields of the record it writes.  It leaves out an id
\* or an email that is falsy; 0 and "" stand for the left-out field.
log_crud_event(operation, resource_type, resource_id, user_email) ==
    [operation |-> operation, resource_type |-> resource_type,
     resource_id |-> resource_id, user_email |-> user_email]

\* The answer of a handler that got past its commit: the record goes to
\* log_crud_event, and a failure of the log handler to write it is swallowed
\* by logging (Handler.handleError), so the answer is the same.
Audited(response, fault, record) ==
    [response EXCEPT !.fault = fault, !.emitted = <<record>>]

\* create_binder giving every binder to the first registered identity
create_binder_first_user(token, fault) ==
    LET auth == get_current_user(token)
        id == Len(binders) + 1 IN
    IF auth.status # 200
    THEN /\ resp' = Denied("create_binder", token, 0, auth)
         /\ UNCHANGED <<db, pending, issued, now, process>>
    ELSE IF fault = "commit"
    THEN /\ resp' = ServerError("create_binder", token, 0, auth.me, fault)
         /\ UNCHANGED <<db, pending, issued, now, process>>
    ELSE /\ binders' = Append(binders, [owner_id |-> 1])
         /\ resp' = Audited(Response("create_binder", token, 0, 201, "", auth.me, {id}),
                            fault,
                            log_crud_event("create", "binder", id, users[auth.me].email))
         /\ UNCHANGED <<users, tasks, documents, files, pending, issued, now, process>>

\* create_binder, lines 129-134: add, commit, refresh, log_crud_event
create_binder(token, fault) ==
    LET auth == get_current_user(token)
        id == Len(binders) + 1 IN
    IF auth.status # 200
    THEN /\ resp' = Denied("create_binder", token, 0, auth)
         /\ UNCHANGED <<db, pending, issued, now, process>>
    ELSE IF fault = "commit"
    THEN /\ resp' = ServerError("create_binder", token, 0, auth.me, fault)
         /\ UNCHANGED <<db, pending, issued, now, process>>
    ELSE /\ binders' = Append(binders, [owner_id |-> auth.me])
         /\ resp' = Audited(Response("create_binder", token, 0, 201, "", auth.me, {id}),
                            fault,
                            log_crud_event("create", "binder", id, users[auth.me].email))
         /\ UNCHANGED <<users, tasks, documents, files, pending, issued, now, process>>

----------------------------------------------------------------------------
(* Tasks *)

\* schemas.TaskCreate: title, description and due_date; a field of the body
\* that the schema does not declare is dropped
TaskCreate(json) == [due_date |-> json.due_date]

\* models.Task as create_task builds it (lines 177-182): status is not
\* passed and takes its default
Task(binder_id, due_date) ==
    [binder_id |-> binder_id, status |-> "open", due_date |-> due_date]

\* is_overdue with a task that is due today counted as late
is_overdue_due_today(t, today) ==
    t.status # "done" /\ t.due_date # NoDate /\ t.due_date <= today

\* list_tasks, line 164
is_overdue(t, today) ==
    t.status # "done" /\ t.due_date # NoDate /\ t.due_date < today

\* schemas.TaskOut as list_tasks fills it, lines 157-165
TaskOut(id) ==
    [id |-> id, status |-> tasks[id].status, due_date |-> tasks[id].due_date,
     is_overdue |-> is_overdue(tasks[id], Today)]

\* list_tasks, lines 153-167: [status, detail, body]
list_tasks_result(binder_id, me) ==
    LET found == get_binder_or_404(binder_id, me) IN
    IF found.status # 200
    THEN [status |-> found.status, detail |-> found.detail, body |-> NoBody]
    ELSE [status |-> 200, detail |-> "", body |-> {TaskOut(t) : t \in TasksOf(binder_id)}]

list_tasks(token, binder_id) ==
    LET auth == get_current_user(token)
        r == list_tasks_result(binder_id, auth.me) IN
    /\ resp' = IF auth.status # 200
               THEN Denied("list_tasks", token, binder_id, auth)
               ELSE Response("list_tasks", token, binder_id, r.status, r.detail,
                             auth.me, r.body)
    /\ UNCHANGED <<db, pending, issued, now, process>>

\* create_task with the audit record written inside the transaction: a
\* failure to write it undoes the insert
create_task_transactional_audit(token, binder_id, json, fault) ==
    LET auth == get_current_user(token)
        task_in == TaskCreate(json)
        found == get_binder_or_404(binder_id, auth.me)
        id == Len(tasks) + 1 IN
    IF auth.status # 200
    THEN /\ resp' = Denied("create_task", token, binder_id, auth)
         /\ UNCHANGED <<db, pending, issued, now, process>>
    ELSE IF found.status # 200
    THEN /\ resp' = Response("create_task", token, binder_id, found.status,
                             found.detail, auth.me, NoBody)
         /\ UNCHANGED <<db, pending, issued, now, process>>
    ELSE IF fault \in {"commit", "audit"}
    THEN /\ resp' = ServerError("create_task", token, binder_id, auth.me, fault)
         /\ UNCHANGED <<db, pending, issued, now, process>>
    ELSE /\ tasks' = Append(tasks, Task(binder_id, task_in.due_date))
         /\ resp' = Audited(Response("create_task", token, binder_id, 201, "", auth.me,
                                     {id}),
                            fault,
                            log_crud_event("create", "task", id, users[auth.me].email))
         /\ UNCHANGED <<users, binders, documents, files, pending, issued, now, process>>

\* create_task adding the row before it looks for the binder: a non-owner
\* is answered 404 with the row left behind
create_task_insert_first(token, binder_id, json, fault) ==
    LET auth == get_current_user(token)
        task_in == TaskCreate(json)
        found == get_binder_or_404(binder_id, auth.me)
        id == Len(tasks) + 1 IN
    IF auth.status # 200
    THEN /\ resp' = Denied("create_task", token, binder_id, auth)
         /\ UNCHANGED <<db, pending, issued, now, process>>
    ELSE IF found.status # 200
    THEN /\ tasks' = Append(tasks, Task(binder_id, task_in.due_date))
         /\ resp' = Response("create_task", token, binder_id, found.status,
                             found.detail, auth.me, NoBody)
         /\ UNCHANGED <<users, binders, documents, files, pending, issued, now, process>>
    ELSE IF fault = "commit"
    THEN /\ resp' = ServerError("create_task", token, binder_id, auth.me, fault)
         /\ UNCHANGED <<db, pending, issued, now, process>>
    ELSE /\ tasks' = Append(tasks, Task(binder_id, task_in.due_date))
         /\ resp' = Audited(Response("create_task", token, binder_id, 201, "", auth.me,
                                     {id}),
                            fault,
                            log_crud_event("create", "task", id, users[auth.me].email))
         /\ UNCHANGED <<users, binders, documents, files, pending, issued, now, process>>

\* create_task taking the status from the body of the request
create_task_client_status(token, binder_id, json, fault) ==
    LET auth == get_current_user(token)
        task_in == TaskCreate(json)
        found == get_binder_or_404(binder_id, auth.me)
        id == Len(tasks) + 1 IN
    IF auth.status # 200
    THEN /\ resp' = Denied("create_task", token, binder_id, auth)
         /\ UNCHANGED <<db, pending, issued, now, process>>
    ELSE IF found.status # 200
    THEN /\ resp' = Response("create_task", token, binder_id, found.status,
                             found.detail, auth.me, NoBody)
         /\ UNCHANGED <<db, pending, issued, now, process>>
    ELSE IF fault = "commit"
    THEN /\ resp' = ServerError("create_task", token, binder_id, auth.me, fault)
         /\ UNCHANGED <<db, pending, issued, now, process>>
    ELSE /\ tasks' = Append(tasks, [Task(binder_id, task_in.due_date) EXCEPT !.status = json.status])
         /\ resp' = Audited(Response("create_task", token, binder_id, 201, "", auth.me,
                                     {id}),
                            fault,
                            log_crud_event("create", "task", id, users[auth.me].email))
         /\ UNCHANGED <<users, binders, documents, files, pending, issued, now, process>>

\* create_task, lines 176-195
create_task(token, binder_id, json, fault) ==
    LET auth == get_current_user(token)
        task_in == TaskCreate(json)
        found == get_binder_or_404(binder_id, auth.me)
        id == Len(tasks) + 1 IN
    IF auth.status # 200
    THEN /\ resp' = Denied("create_task", token, binder_id, auth)
         /\ UNCHANGED <<db, pending, issued, now, process>>
    ELSE IF found.status # 200
    THEN /\ resp' = Response("create_task", token, binder_id, found.status,
                             found.detail, auth.me, NoBody)
         /\ UNCHANGED <<db, pending, issued, now, process>>
    ELSE IF fault = "commit"
    THEN /\ resp' = ServerError("create_task", token, binder_id, auth.me, fault)
         /\ UNCHANGED <<db, pending, issued, now, process>>
    ELSE /\ tasks' = Append(tasks, Task(binder_id, task_in.due_date))
         /\ resp' = Audited(Response("create_task", token, binder_id, 201, "", auth.me,
                                     {id}),
                            fault,
                            log_crud_event("create", "task", id, users[auth.me].email))
         /\ UNCHANGED <<users, binders, documents, files, pending, issued, now, process>>

\* task_or_404 without the walk up to the binder's owner
task_or_404_exists_only(task_id, me) ==
    IF task_id \notin 1..Len(tasks)
    THEN [status |-> 404, detail |-> "Task not found"]
    ELSE [status |-> 200, detail |-> ""]

\* mark_done, lines 204-209: [status, detail]
task_or_404(task_id, me) ==
    IF task_id \notin 1..Len(tasks)
    THEN [status |-> 404, detail |-> "Task not found"]
    ELSE IF \/ tasks[task_id].binder_id \notin 1..Len(binders)
            \/ binders[tasks[task_id].binder_id].owner_id # me
    THEN [status |-> 404, detail |-> "Task not found"]
    ELSE [status |-> 200, detail |-> ""]

\* done_row as a toggle
done_row_toggle(task) ==
    [task EXCEPT !.status = IF task.status = "done" THEN "open" ELSE "done"]

\* mark_done, lines 210-213: the row as committed
done_row(task) == [task EXCEPT !.status = "done"]

\* mark_done closing every task of the binder along with the one named
mark_done_whole_binder(token, task_id, fault) ==
    LET auth == get_current_user(token)
        found == task_or_404(task_id, auth.me)
        record == log_crud_event("update", "task", task_id, users[auth.me].email) IN
    IF auth.status # 200
    THEN /\ resp' = Denied("mark_done", token, task_id, auth)
         /\ UNCHANGED <<db, pending, issued, now, process>>
    ELSE IF found.status # 200
    THEN /\ resp' = Response("mark_done", token, task_id, found.status,
                             found.detail, auth.me, NoBody)
         /\ UNCHANGED <<db, pending, issued, now, process>>
    ELSE IF fault = "commit"
    THEN /\ resp' = ServerError("mark_done", token, task_id, auth.me, fault)
         /\ UNCHANGED <<db, pending, issued, now, process>>
    ELSE /\ tasks' = [k \in 1..Len(tasks) |->
                        IF tasks[k].binder_id = tasks[task_id].binder_id
                        THEN done_row(tasks[k]) ELSE tasks[k]]
         /\ resp' = Audited(Response("mark_done", token, task_id, 200, "", auth.me, NoBody),
                            fault, record)
         /\ UNCHANGED <<users, binders, documents, files, pending, issued, now, process>>

\* mark_done calling log_crud_event before the commit
mark_done_audit_first(token, task_id, fault) ==
    LET auth == get_current_user(token)
        found == task_or_404(task_id, auth.me)
        record == log_crud_event("update", "task", task_id, users[auth.me].email) IN
    IF auth.status # 200
    THEN /\ resp' = Denied("mark_done", token, task_id, auth)
         /\ UNCHANGED <<db, pending, issued, now, process>>
    ELSE IF found.status # 200
    THEN /\ resp' = Response("mark_done", token, task_id, found.status,
                             found.detail, auth.me, NoBody)
         /\ UNCHANGED <<db, pending, issued, now, process>>
    ELSE IF fault = "commit"
    THEN /\ resp' = [ServerError("mark_done", token, task_id, auth.me, fault)
                       EXCEPT !.emitted = <<record>>]
         /\ UNCHANGED <<db, pending, issued, now, process>>
    ELSE /\ tasks' = [tasks EXCEPT ![task_id] = done_row(tasks[task_id])]
         /\ resp' = Audited(Response("mark_done", token, task_id, 200, "", auth.me, NoBody),
                            fault, record)
         /\ UNCHANGED <<users, binders, documents, files, pending, issued, now, process>>

\* mark_done, lines 204-215
mark_done(token, task_id, fault) ==
    LET auth == get_current_user(token)
        found == task_or_404(task_id, auth.me)
        record == log_crud_event("update", "task", task_id, users[auth.me].email) IN
    IF auth.status # 200
    THEN /\ resp' = Denied("mark_done", token, task_id, auth)
         /\ UNCHANGED <<db, pending, issued, now, process>>
    ELSE IF found.status # 200
    THEN /\ resp' = Response("mark_done", token, task_id, found.status,
                             found.detail, auth.me, NoBody)
         /\ UNCHANGED <<db, pending, issued, now, process>>
    ELSE IF fault = "commit"
    THEN /\ resp' = ServerError("mark_done", token, task_id, auth.me, fault)
         /\ UNCHANGED <<db, pending, issued, now, process>>
    ELSE /\ tasks' = [tasks EXCEPT ![task_id] = done_row(tasks[task_id])]
         /\ resp' = Audited(Response("mark_done", token, task_id, 200, "", auth.me, NoBody),
                            fault, record)
         /\ UNCHANGED <<users, binders, documents, files, pending, issued, now, process>>

----------------------------------------------------------------------------
(* Documents *)

\* os.path.basename: the text after the last separator
basename(original_name) == original_name[Len(original_name)]

\* token + "_" + name, as the components the result splits into: the token
\* sticks to the first component of the name
Prefixed(token, name) ==
    IF name = <<>> THEN <<<<token, "">>>>
    ELSE <<<<token, name[1]>>>> \o Tail(name)

\* safe_name without the random token
safe_name_no_token(nonce, original_name) ==
    Prefixed("", <<basename(original_name)>>)

\* safe_name without os.path.basename
safe_name_unstripped(nonce, original_name) ==
    Prefixed(nonce, original_name)

\* line 245: secrets.token_hex(16) + "_" + os.path.basename(file.filename)
safe_name(nonce, original_name) ==
    Prefixed(nonce, <<basename(original_name)>>)

\* Path(settings.upload_dir) / name
StoragePath(name) == upload_dir \o name

\* what is on disk when f.write stops before the end: the data one byte short
Truncated(data) == [data EXCEPT !.size = data.size - 1]

\* list_documents, lines 224-233: [status, detail, body]
list_documents_result(binder_id, me) ==
    LET found == get_binder_or_404(binder_id, me) IN
    IF found.status # 200
    THEN [status |-> found.status, detail |-> found.detail, body |-> NoBody]
    ELSE [status |-> 200, detail |-> "", body |-> DocumentsOf(binder_id)]

list_documents(token, binder_id) ==
    LET auth == get_current_user(token)
        r == list_documents_result(binder_id, auth.me) IN
    /\ resp' = IF auth.status # 200
               THEN Denied("list_documents", token, binder_id, auth)
               ELSE Response("list_documents", token, binder_id, r.status, r.detail,
                             auth.me, r.body)
    /\ UNCHANGED <<db, pending, issued, now, process>>

\* upload_document committing the row before it writes the file
upload_document_row_first(token, binder_id, file, nonce, fault) ==
    LET auth == get_current_user(token)
        found == get_binder_or_404(binder_id, auth.me)
        stored == safe_name(nonce, file.filename)
        id == Len(documents) + 1
        row == [binder_id |-> binder_id,
                filename |-> stored,
                original_name |-> file.filename,
                content_type |-> IF file.content_type = ""
                                 THEN "application/octet-stream"
                                 ELSE file.content_type,
                uploaded_at |-> now]
        failed == [ServerError("upload_document", token, binder_id, auth.me, fault)
                      EXCEPT !.file = {file}] IN
    IF auth.status # 200
    THEN /\ resp' = [Denied("upload_document", token, binder_id, auth)
                        EXCEPT !.file = {file}]
         /\ UNCHANGED <<db, pending, issued, now, process>>
    ELSE IF found.status # 200
    THEN /\ resp' = [Response("upload_document", token, binder_id, found.status,
                              found.detail, auth.me, NoBody) EXCEPT !.file = {file}]
         /\ UNCHANGED <<db, pending, issued, now, process>>
    ELSE IF fault = "commit"
    THEN /\ resp' = failed
         /\ UNCHANGED <<db, pending, issued, now, process>>
    ELSE IF fault = "write"
    THEN /\ files' = (stored :> Truncated(file.data)) @@ files
         /\ documents' = Append(documents, row)
         /\ resp' = failed
         /\ UNCHANGED <<users, binders, tasks, pending, issued, now, process>>
    ELSE /\ files' = (stored :> file.data) @@ files
         /\ documents' = Append(documents, row)
         /\ resp' = Audited([Response("upload_document", token, binder_id, 201, "",
                                      auth.me, NoBody) EXCEPT !.file = {file}],
                            fault,
                            log_crud_event("create", "document", id,
                                           users[auth.me].email))
         /\ UNCHANGED <<users, binders, tasks, pending, issued, now, process>>

\* upload_document, lines 243-261: the file is written whole to dest (247-248),
\* then the row is added and committed (250-259), then log_crud_event (260).
\* fault names the step that raises: "write" leaves a partial file and no
\* row, "commit" the whole file and no row.
upload_document(token, binder_id, file, nonce, fault) ==
    LET auth == get_current_user(token)
        found == get_binder_or_404(binder_id, auth.me)
        stored == safe_name(nonce, file.filename)
        id == Len(documents) + 1
        row == [binder_id |-> binder_id,
                filename |-> stored,
                original_name |-> file.filename,
                content_type |-> IF file.content_type = ""
                                 THEN "application/octet-stream"
                                 ELSE file.content_type,
                uploaded_at |-> now]
        failed == [ServerError("upload_document", token, binder_id, auth.me, fault)
                      EXCEPT !.file = {file}] IN
    IF auth.status # 200
    THEN /\ resp' = [Denied("upload_document", token, binder_id, auth)
                        EXCEPT !.file = {file}]
         /\ UNCHANGED <<db, pending, issued, now, process>>
    ELSE IF found.status # 200
    THEN /\ resp' = [Response("upload_document", token, binder_id, found.status,
                              found.detail, auth.me, NoBody) EXCEPT !.file = {file}]
         /\ UNCHANGED <<db, pending, issued, now, process>>
    ELSE IF fault = "write"
    THEN /\ files' = (stored :> Truncated(file.data)) @@ files
         /\ resp' = failed
         /\ UNCHANGED <<users, binders, tasks, documents, pending, issued, now, process>>
    ELSE IF fault = "commit"
    THEN /\ files' = (stored :> file.data) @@ files
         /\ resp' = failed
         /\ UNCHANGED <<users, binders, tasks, documents, pending, issued, now, process>>
    ELSE /\ files' = (stored :> file.data) @@ files
         /\ documents' = Append(documents, row)
         /\ resp' = Audited([Response("upload_document", token, binder_id, 201, "",
                                      auth.me, NoBody) EXCEPT !.file = {file}],
                            fault,
                            log_crud_event("create", "document", id,
                                           users[auth.me].email))
         /\ UNCHANGED <<users, binders, tasks, pending, issued, now, process>>

\* line 281: FileResponse(path, media_type=doc.content_type,
\* filename=doc.original_name), path being upload_dir / doc.filename
FileResponse(doc) ==
    [path |-> StoragePath(doc.filename), content |-> files[doc.filename],
     media_type |-> doc.content_type, filename |-> doc.original_name]

\* download_result looking for the file before the owner
download_result_file_first(doc_id, me) ==
    IF doc_id \notin 1..Len(documents)
    THEN [status |-> 404, detail |-> "Doc not found", body |-> NoBody]
    ELSE IF documents[doc_id].filename \notin DOMAIN files
    THEN [status |-> 404, detail |-> "File missing on server", body |-> NoBody]
    ELSE IF \/ documents[doc_id].binder_id \notin 1..Len(binders)
            \/ binders[documents[doc_id].binder_id].owner_id # me
    THEN [status |-> 404, detail |-> "Doc not found", body |-> NoBody]
    ELSE [status |-> 200, detail |-> "", body |-> {FileResponse(documents[doc_id])}]

\* download_document, lines 270-281: [status, detail, body]
download_result(doc_id, me) ==
    IF doc_id \notin 1..Len(documents)
    THEN [status |-> 404, detail |-> "Doc not found", body |-> NoBody]
    ELSE IF \/ documents[doc_id].binder_id \notin 1..Len(binders)
            \/ binders[documents[doc_id].binder_id].owner_id # me
    THEN [status |-> 404, detail |-> "Doc not found", body |-> NoBody]
    ELSE IF documents[doc_id].filename \notin DOMAIN files
    THEN [status |-> 404, detail |-> "File missing on server", body |-> NoBody]
    ELSE [status |-> 200, detail |-> "", body |-> {FileResponse(documents[doc_id])}]

download_document(token, doc_id) ==
    LET auth == get_current_user(token)
        r == download_result(doc_id, auth.me) IN
    /\ resp' = IF auth.status # 200
               THEN Denied("download_document", token, doc_id, auth)
               ELSE Response("download_document", token, doc_id, r.status, r.detail,
                             auth.me, r.body)
    /\ UNCHANGED <<db, pending, issued, now, process>>

----------------------------------------------------------------------------
(* Report *)

\* session.exec(select(...)).all() with no order_by: the ids of the rows, in
\* the order of the table
SelectAll(table) == [id \in 1..Len(table) |-> id]

\* sorted(rows, key=..., reverse=...): a stable sort, in which rows of equal
\* keys keep the order they came in, reversed or not
RECURSIVE sorted(_, _, _)
sorted(rows, key, reverse) ==
    IF rows = <<>> THEN <<>>
    ELSE LET n == Len(rows)
             x == rows[n]
             front == sorted(SubSeq(rows, 1, n - 1), key, reverse)
             \* the rows that stay ahead of x
             ahead == Cardinality({i \in 1..Len(front) :
                         IF reverse THEN key[front[i]] >= key[x]
                                    ELSE key[front[i]] <= key[x]})
         IN SubSeq(front, 1, ahead) \o <<x>> \o SubSeq(front, ahead + 1, Len(front))

\* lines 309 and 315: x.due_date or date.max
due_key(task) == IF task.due_date = NoDate THEN DateMax ELSE task.due_date

\* binder_report, lines 293-328: [status, detail, body]; the body is the
\* rows of the three tables of the page, top to bottom
binder_report_result(binder_id, me) ==
    LET found == get_binder_or_404(binder_id, me)
        of_binder == SelectSeq(SelectAll(tasks),
                               LAMBDA t : tasks[t].binder_id = binder_id)
        docs == SelectSeq(SelectAll(documents),
                          LAMBDA d : documents[d].binder_id = binder_id)
        open_tasks == SelectSeq(of_binder, LAMBDA t : tasks[t].status # "done")
        done_tasks == SelectSeq(of_binder, LAMBDA t : tasks[t].status = "done")
        by_due == [t \in 1..Len(tasks) |-> due_key(tasks[t])]
        by_upload == [d \in 1..Len(documents) |-> documents[d].uploaded_at] IN
    IF found.status # 200
    THEN [status |-> found.status, detail |-> found.detail, body |-> NoBody]
    ELSE [status |-> 200, detail |-> "",
          body |-> [open_tasks |-> sorted(open_tasks, by_due, FALSE),
                    done_tasks |-> sorted(done_tasks, by_due, FALSE),
                    documents |-> sorted(docs, by_upload, TRUE)]]

binder_report(token, binder_id) ==
    LET auth == get_current_user(token)
        r == binder_report_result(binder_id, auth.me) IN
    /\ resp' = IF auth.status # 200
               THEN Denied("binder_report", token, binder_id, auth)
               ELSE Response("binder_report", token, binder_id, r.status, r.detail,
                             auth.me, r.body)
    /\ UNCHANGED <<db, pending, issued, now, process>>

----------------------------------------------------------------------------
(* monitoring.py *)

\* get_metrics, lines 149-184: the counts it reports (the timestamp and
\* storage_bytes are left out)
MetricsResponse ==
    [users_total |-> Len(users),
     binders_total |-> Len(binders),
     tasks_total |-> Len(tasks),
     tasks_open |-> Cardinality({t \in 1..Len(tasks) : tasks[t].status = "open"}),
     tasks_done |-> Cardinality({t \in 1..Len(tasks) : tasks[t].status = "done"}),
     tasks_overdue |-> Cardinality({t \in 1..Len(tasks) :
                          /\ tasks[t].status = "open"
                          /\ tasks[t].due_date # NoDate
                          /\ tasks[t].due_date < Today}),
     documents_total |-> Len(documents)]

\* GET /metrics: no token is asked for
get_metrics ==
    /\ resp' = Response("get_metrics", NoToken, 0, 200, "", 0, MetricsResponse)
    /\ UNCHANGED <<db, pending, issued, now, process>>

----------------------------------------------------------------------------
(* The storage root can lose a file behind the server's back; download     *)
(* answers "File missing on server" for it (line 279).                     *)
storage_loss(name) ==
    /\ name \in DOMAIN files
    /\ files' = [n \in DOMAIN files \ {name} |-> files[n]]
    /\ UNCHANGED <<users, binders, tasks, documents, pending, issued, now, resp, process>>

----------------------------------------------------------------------------
(* Specifications.  The handlers above carry no bound; each specification  *)
(* draws their inputs from its own sets and caps the tables it grows.      *)

\* secrets.token_hex(16): 128 random bits, taken as never repeating
FreshNonces(nonces) ==
    {n \in nonces :
        /\ \A d \in 1..Len(documents) : documents[d].filename[1][1] # n
        /\ \A name \in DOMAIN files : name[1][1] # n}

Ids(table) == 1..(Len(table) + 1)

\* The steps of a handler that can raise: the write of the uploaded file,
\* the commit of the session, the write of the audit record.
Faults == {"none", "write", "commit", "audit"}

Requests(tokens, bodies, uploads, nonces, faults, rowcap) ==
    \/ \E t \in tokens : list_binders(t)
    \/ \E t \in tokens, f \in faults \ {"write"} :
          create_binder(t, f) /\ RowCount' <= rowcap
    \/ \E t \in tokens, b \in Ids(binders) : list_tasks(t, b)
    \/ \E t \in tokens, b \in Ids(binders), j \in bodies, f \in faults \ {"write"} :
          create_task(t, b, j, f) /\ RowCount' <= rowcap
    \/ \E t \in tokens, k \in Ids(tasks), f \in faults \ {"write"} : mark_done(t, k, f)
    \/ \E t \in tokens, b \in Ids(binders) : list_documents(t, b)
    \/ \E t \in tokens, b \in Ids(binders), u \in uploads, n \in FreshNonces(nonces),
          f \in faults :
          upload_document(t, b, u, n, f) /\ RowCount' <= rowcap
    \/ \E t \in tokens, d \in Ids(documents) : download_document(t, d)
    \/ \E t \in tokens, b \in Ids(binders) : binder_report(t, b)

\* An email that is registered, or the next to register: the identities
\* register in one order (the other order is the same run with the ids
\* swapped).
InOrder(e) ==
    \/ UserByEmail(e) # 0
    \/ \E i \in 1..Len(RegistrationOrder) :
          Len(users) = i - 1 /\ RegistrationOrder[i] = e

\* Registrations one after the other: none starts while one is in flight.
SerialRegister(password, salt) ==
    \/ \E e \in Emails : pending = EmptyBag /\ InOrder(e) /\ register_check(e, password)
    \/ \E r \in BagToSet(pending) : register_commit(r, salt)

\* Spec: every handler, two identities with one password each, no clock.
Next ==
    \/ SerialRegister("pw1", "s1")
    \/ \E e \in Emails, p \in Passwords : login(e, p)
    \/ Requests(Presentable({Garbage}, {"a@x.com"}), {Undated}, {Passwd}, {"r1"}, {"none"},
                MaxRows)

Spec == Init /\ [][Next]_vars

\* SpecEnv: Spec in a storage root that can lose files.
NextEnv ==
    \/ Next
    \/ \E f \in DOMAIN files : storage_loss(f)

SpecEnv == Init /\ [][NextEnv]_vars

\* SpecAuth: registration and login alone, with racing registrations,
\* two passwords and two salts.
NextAuth ==
    \/ \E e \in Emails, p \in Passwords :
          register_check(e, p) /\ BagCardinality(pending') <= MaxInFlight
    \/ \E r \in BagToSet(pending), s \in Salts : register_commit(r, s)
    \/ \E e \in Emails, p \in Passwords : login(e, p)

SpecAuth == Init /\ [][NextAuth]_vars

\* SpecClock: every handler under a running clock, on small tables; the two
\* identities register in one order (the other order is the same run with
\* the ids swapped).
NextClock ==
    \/ \E i \in 1..Len(RegistrationOrder) :
          /\ Len(users) = i - 1
          /\ pending = EmptyBag
          /\ register_check(RegistrationOrder[i], "pw1")
    \/ \E r \in BagToSet(pending) : register_commit(r, "s1")
    \/ \E e \in Emails :
          /\ login(e, "pw1")
          /\ \A u \in 1..Len(users) :
                Cardinality({i \in issued' : i.uid = u}) <= ClockTokens
    \/ \E t \in Instants : Tick(t)
    \/ Requests(Presentable({}, {"b@x.com"}), {Undated}, {Report}, {"r1"}, {"none"},
                ClockRows)

SpecClock == Init /\ [][NextClock]_vars

\* SpecFaults: one identity uploading several files, with handlers that
\* fail at their file write, their commit or their audit write.
NextFaults ==
    \/ pending = EmptyBag /\ register_check("a@x.com", "pw1")
    \/ \E r \in BagToSet(pending) : register_commit(r, "s1")
    \/ login("a@x.com", "pw1")
    \/ \E t \in IssuedTokens, f \in Faults \ {"write"} :
          create_binder(t, f) /\ RowCount' <= FaultRows
    \/ \E t \in IssuedTokens, b \in Ids(binders), f \in Faults \ {"write"} :
          create_task(t, b, Undated, f) /\ RowCount' <= FaultRows
    \/ \E t \in IssuedTokens, k \in Ids(tasks), f \in Faults \ {"write"} :
          mark_done(t, k, f)
    \/ \E t \in IssuedTokens, b \in Ids(binders) : list_documents(t, b)
    \/ \E t \in IssuedTokens, b \in Ids(binders), u \in Uploads,
          n \in FreshNonces({"r1", "r2"}), f \in Faults :
          upload_document(t, b, u, n, f) /\ RowCount' <= FaultRows
    \/ \E t \in IssuedTokens, d \in Ids(documents) : download_document(t, d)

SpecFaults == Init /\ [][NextFaults]_vars

\* SpecErrors: two identities, one password each, with requests that fail
\* every way a request can: an email already registered, bad credentials, no
\* token, somebody else's binder, an id that names nothing, a file write or
\* a commit that raises.
NextErrors ==
    \/ \E e \in Emails :
          /\ pending = EmptyBag
          /\ InOrder(e)
          /\ register_check(e, "pw1")
    \/ \E r \in BagToSet(pending) : register_commit(r, "s1")
    \/ \E e \in Emails, p \in Passwords : login(e, p)
    \/ Requests({NoToken} \cup IssuedTokens, {Undated}, {Report}, {"r1"},
                {"none", "write", "commit"}, ErrorRows)

SpecErrors == Init /\ [][NextErrors]_vars

\* SpecReport: one identity with tasks of several due dates and documents
\* uploaded on several days, its lists, its reports and the metrics.
NextReport ==
    \/ pending = EmptyBag /\ users = <<>> /\ register_check("a@x.com", "pw1")
    \/ \E r \in BagToSet(pending) : register_commit(r, "s1")
    \/ issued = {} /\ login("a@x.com", "pw1")
    \/ \E t \in Midnights : Tick(t)
    \/ \E t \in IssuedTokens : create_binder(t, "none") /\ RowCount' <= ReportRows
    \/ \E t \in IssuedTokens, b \in 1..Len(binders), d \in DueDates :
          create_task(t, b, TaskJson(d, "open"), "none") /\ RowCount' <= ReportRows
    \/ \E t \in IssuedTokens, k \in 1..Len(tasks) : mark_done(t, k, "none")
    \/ \E t \in IssuedTokens, b \in 1..Len(binders), n \in FreshNonces({"r1", "r2"}) :
          upload_document(t, b, Report, n, "none") /\ RowCount' <= ReportRows
    \/ \E t \in IssuedTokens, b \in 1..Len(binders) : list_tasks(t, b)
    \/ \E t \in IssuedTokens, b \in 1..Len(binders) : binder_report(t, b)
    \/ get_metrics

SpecReport == Init /\ [][NextReport]_vars

\* SpecTokens: two identities that log in again and again under a running
\* clock, with failed logins, registrations and new binders in between, and
\* create_access_token called with every lifetime.
NextTokens ==
    \/ \E i \in 1..Len(RegistrationOrder) :
          /\ Len(users) = i - 1
          /\ pending = EmptyBag
          /\ register_check(RegistrationOrder[i], "pw1")
    \/ \E r \in BagToSet(pending) : register_commit(r, "s1")
    \/ \E e \in Emails, p \in Passwords :
          login(e, p) /\ Cardinality(issued') <= TokenCap
    \/ \E t \in Instants : Tick(t)
    \/ \E e \in Emails, m \in Lifetimes : issue_token(e, m)
    \/ \E t \in IssuedTokens : list_binders(t)
    \/ \E t \in IssuedTokens : create_binder(t, "none") /\ RowCount' <= TokenRows

SpecTokens == Init /\ [][NextTokens]_vars

\* The values ENV is set to: not set, development, three spellings of the
\* names config.py knows, and one it does not know.
Envs == {"", "development", "production", "PROD", "Staging", "preprod"}

\* SpecStartup: a process started under each ENV with and without
\* SECRET_KEY; the one that comes up registers identities, logs them in if
\* it has a key to sign with, and answers requests that carry no good token.
InitStartup ==
    /\ users = <<>>
    /\ binders = <<>>
    /\ tasks = <<>>
    /\ documents = <<>>
    /\ files = NoFiles
    /\ pending = EmptyBag
    /\ issued = {}
    /\ now = 0
    /\ resp = Response("startup", NoToken, 0, 200, "", 0, NoBody)
    /\ process \in {Process(e, k) : e \in Envs, k \in {NoSecret, secret_key}}

NextStartup ==
    \/ startup
    \/ \E e \in Emails :
          /\ process.state = "serving"
          /\ pending = EmptyBag
          /\ register_check(e, "pw1")
    \/ \E r \in BagToSet(pending) : register_commit(r, "s1")
    \/ \E e \in Emails :
          /\ process.state = "serving"
          /\ process.secret_key # NoSecret
          /\ login(e, "pw1")
    \/ \E t \in {NoToken, Garbage} :
          process.state = "serving" /\ list_binders(t)
    \/ process.state = "serving" /\ get_metrics

SpecStartup == InitStartup /\ [][NextStartup]_vars

----------------------------------------------------------------------------
(* What the properties below read off a completed request *)

BinderOps == {"list_tasks", "create_task", "list_documents", "upload_document",
              "binder_report"}
ResourceOps == BinderOps \cup {"list_binders", "create_binder", "mark_done",
                               "download_document"}

\* The identities a login minted the presented token for, if the request
\* came within the token's lifetime.
Bearers == {i.uid : i \in {j \in issued : j.token = resp.token /\ resp.at <= j.token.exp}}

\* The owner of the binder the request names, directly or through a task or
\* a document; 0 when the id names no row.
TargetOwner ==
    IF resp.op \in BinderOps
    THEN IF resp.arg \in 1..Len(binders) THEN binders[resp.arg].owner_id ELSE 0
    ELSE IF resp.op = "mark_done"
    THEN IF resp.arg \in 1..Len(tasks)
         THEN binders[tasks[resp.arg].binder_id].owner_id ELSE 0
    ELSE IF resp.op = "download_document"
    THEN IF resp.arg \in 1..Len(documents)
         THEN binders[documents[resp.arg].binder_id].owner_id ELSE 0
    ELSE 0

Answer == <<resp.status, resp.detail>>

----------------------------------------------------------------------------
\* C1: a request made with the token of an identity Y on a binder owned by
\* another identity X, or on a task or document of such a binder, is answered
\* 404, whichever of list tasks, create task, mark-done, list documents,
\* upload, download and report it is.
C1_NonOwnerGetsNotFound ==
    \A y \in Bearers :
        (TargetOwner # 0 /\ TargetOwner # y) => resp.status = 404

\* a non-owner asked to mark an existing task of another identity done
C1_Witness ==
    /\ resp.op = "mark_done"
    /\ TargetOwner # 0
    /\ \E y \in Bearers : y # TargetOwner
    /\ resp.status = 404

\* C2: to an authenticated caller, the answer (status and detail) for a
\* binder, task or document of another identity is the answer the same caller
\* gets for an id that names nothing; "File missing on server" is only ever
\* told to the owner of the document.
AbsentAnswer(op, me) ==
    IF op \in BinderOps
    THEN LET r == get_binder_or_404(Len(binders) + 1, me) IN <<r.status, r.detail>>
    ELSE IF op = "mark_done"
    THEN LET r == task_or_404(Len(tasks) + 1, me) IN <<r.status, r.detail>>
    ELSE LET r == download_result(Len(documents) + 1, me) IN <<r.status, r.detail>>

C2_ExistenceNotDisclosed ==
    \A y \in Bearers :
        /\ (resp.op \in BinderOps \cup {"mark_done", "download_document"}
              /\ TargetOwner # y)
           => /\ Answer = AbsentAnswer(resp.op, y)
              /\ resp.status = 404
              /\ resp.body = NoBody
        /\ resp.detail = "File missing on server" => TargetOwner = y

\* a non-owner asked for a document of another identity whose file is gone
C2_Witness ==
    /\ resp.op = "download_document"
    /\ resp.arg \in 1..Len(documents)
    /\ documents[resp.arg].filename \notin DOMAIN files
    /\ \E y \in Bearers : y # TargetOwner
    /\ resp.detail = "Doc not found"

\* C3: a binder, task, document or report request that carries no token, or
\* one that no login returned, is answered 401 whatever it names, and leaves
\* users, binders, tasks, documents and stored files as they were.
Unauthenticated == resp.op \in ResourceOps /\ resp.token \notin IssuedTokens

C3_BadTokenIs401 ==
    /\ [](Unauthenticated => resp.status = 401 /\ resp.me = 0)
    /\ [][Unauthenticated' => db' = db]_vars

\* a forged token of the owner on a binder that exists
C3_Witness ==
    /\ resp.op = "create_task"
    /\ resp.token = Forged("a@x.com")
    /\ resp.arg \in 1..Len(binders)
    /\ users[binders[resp.arg].owner_id].email = "a@x.com"
    /\ resp.status = 401


----------------------------------------------------------------------------
\* C4: a request that carries a token a login minted for identity X, made no
\* later than the token's expiry, runs as X: it is not turned away as
\* unauthenticated, and the binders it lists or creates, and the binder of
\* whatever it reads or writes, are X's.
Granted == resp.status \in {200, 201}

ScopedTo(x) ==
    /\ resp.op \in {"list_binders", "create_binder"} /\ Granted
         => \A b \in resp.body : b \in 1..Len(binders) /\ binders[b].owner_id = x
    /\ resp.op \in BinderOps \cup {"mark_done", "download_document"} /\ Granted
         => TargetOwner = x

C4_TokenActsAsItsIdentity ==
    resp.op \in ResourceOps =>
        \A x \in Bearers :
            /\ resp.status # 401
            /\ resp.me = x
            /\ users[x].email = resp.token.sub
            /\ ScopedTo(x)

\* the second identity lists its binder in the last minute of its token
C4_Witness ==
    /\ resp.op = "list_binders"
    /\ resp.at = resp.token.exp
    /\ 2 \in Bearers
    /\ resp.status = 200
    /\ resp.body # {}

\* C5: a request whose token is past its expiry, or is not signed with the
\* server's key, is answered 401 by every authenticated handler, runs as
\* nobody and changes nothing stored.
Stale ==
    /\ resp.op \in ResourceOps
    /\ resp.token.kind = "jwt"
    /\ resp.token.exp < resp.at \/ resp.token.sig # secret_key

C5_ExpiredOrForgedRejected ==
    /\ [](Stale => resp.status = 401 /\ resp.me = 0 /\ resp.body = NoBody)
    /\ [][Stale' => db' = db]_vars

\* a token a login returned, presented the minute after it expired
C5_Witness ==
    /\ resp.op = "create_binder"
    /\ resp.token \in IssuedTokens
    /\ resp.at = resp.token.exp + 1
    /\ resp.status = 401

\* C6: login answers with a bearer token exactly when the email names a
\* stored identity and the password verifies against its hash; the token's
\* subject is that email.  Otherwise it answers 401 and mints nothing.
GoodCredentials(email, password) ==
    \E u \in 1..Len(users) :
        /\ users[u].email = email
        /\ verify_password(password, users[u].password_hash)

C6_LoginIffCredentials ==
    /\ [](resp.op = "login" =>
            IF GoodCredentials(resp.arg[1], resp.arg[2])
            THEN /\ resp.status = 200
                 /\ \E t \in resp.body :
                       /\ resp.body = {t}
                       /\ t.token_type = "bearer"
                       /\ t.access_token.sub = resp.arg[1]
                       /\ t.access_token \in IssuedTokens
            ELSE /\ resp.status = 401
                 /\ resp.body = NoBody)
    /\ [][resp'.op = "login" /\ resp'.status # 200 => issued' = issued]_vars

\* the second password logs in where an identity registered with it
C6_Witness ==
    /\ resp.op = "login"
    /\ resp.arg[2] = "pw2"
    /\ resp.status = 200
    /\ \E u \in 1..Len(users) :
          users[u].email # resp.arg[1] /\ verify_password("pw1", users[u].password_hash)

\* C7: a login that fails is answered the same, status, detail and body,
\* as a login with an email no identity has.
Unregistered == "nobody@x.com"

C7_LoginFailuresAlike ==
    resp.op = "login" /\ resp.status # 200 =>
        LET r == login_result(Unregistered, resp.arg[2]) IN
        <<resp.status, resp.detail, resp.body>> = <<r.status, r.detail, r.body>>

\* a stored identity's email with the wrong password
C7_Witness ==
    /\ resp.op = "login"
    /\ resp.status # 200
    /\ UserByEmail(resp.arg[1]) # 0

\* C8: no two rows of the user table hold the same email, however
\* registrations interleave.
C8_EmailsUnique ==
    \A u, v \in 1..Len(users) : users[u].email = users[v].email => u = v

\* two registrations of one email both passed the check; the second commit
\* met the row of the first
C8_Witness ==
    /\ resp.op = "register"
    /\ resp.status = 500
    /\ UserByEmail(resp.arg[1]) # 0

\* C9: a registration whose email is already stored when the handler looks
\* it up is answered 400 "Email already registered", adds no row, never
\* reaches the commit, and leaves the stored hash as it was: every password
\* logs in after it exactly if it logged in before, so the original password
\* still does and a different password sent with the rejected request does not.
LogsIn(email, password) == login_result(email, password).status = 200

Waiting(email) == {r \in BagToSet(pending) : r.email = email}

C9_DuplicateRegistrationRejected ==
    [][\A e \in Emails :
          UserByEmail(e) # 0 =>
             /\ \A r \in Waiting(e)' : CopiesIn(r, pending') <= CopiesIn(r, pending)
             /\ (resp'.op = "register" /\ resp'.arg[1] = e /\ pending' = pending)
                  => /\ resp'.status = 400
                     /\ resp'.detail = "Email already registered"
                     /\ users' = users
                     /\ \A q \in Passwords : LogsIn(e, q)' = LogsIn(e, q)
                     /\ \E q \in Passwords : LogsIn(e, q)']_vars

\* a stored email registered again with another password
C9_Witness ==
    /\ resp.op = "register"
    /\ resp.status = 400
    /\ ~LogsIn(resp.arg[1], resp.arg[2])
    /\ \E q \in Passwords : LogsIn(resp.arg[1], q)

\* C10: a task whose stored status is "done" has status "done" after every
\* step, whoever takes it.
C10_DoneStaysDone ==
    [][\A t \in 1..Len(tasks) :
          tasks[t].status = "done"
            => t \in 1..Len(tasks') /\ tasks'[t].status = "done"]_vars

\* a done task that another identity then asked to mark done
C10_Witness ==
    /\ resp.op = "mark_done"
    /\ resp.arg \in 1..Len(tasks)
    /\ tasks[resp.arg].status = "done"
    /\ resp.status = 404

C12_OwnerFixedAtCreation ==
    /\ [](\A b \in 1..Len(binders) : binders[b].owner_id \in 1..Len(users))
    /\ [][/\ Len(binders') >= Len(binders)
          /\ \A b \in 1..Len(binders) : binders'[b].owner_id = binders[b].owner_id
          /\ \A b \in (Len(binders) + 1)..Len(binders') :
                /\ resp'.op = "create_binder"
                /\ resp'.body = {b}
                /\ Bearers' = {binders'[b].owner_id}]_vars

\* the second identity's binder, still its own after the first identity
\* tried to add a task to it
C12_Witness ==
    /\ resp.op = "create_task"
    /\ resp.arg \in 1..Len(binders)
    /\ binders[resp.arg].owner_id = 2
    /\ 1 \in Bearers
    /\ resp.status = 404

\* C13: list-binders asked with the token of identity X is answered 200 with
\* exactly the binders X created: CreatedBy(x) starts empty, gains the new
\* binder in each step in which a create-binder request of X is answered 201
\* and changes in no other step, and the answer is that set, with no binder
\* of another identity in it.  (The answer is a set of ids: a row is listed
\* once.)
CreatedBy(x) == {b \in 1..Len(binders) : binders[b].owner_id = x}

C13_ListsExactlyOwnBinders ==
    /\ [](resp.op = "list_binders" =>
            \A x \in Bearers : resp.status = 200 /\ resp.body = CreatedBy(x))
    /\ [][\A x \in 1..Len(users) :
             CreatedBy(x)' =
                IF /\ resp'.op = "create_binder" /\ resp'.status = 201
                   /\ resp' # resp /\ Bearers' = {x}
                THEN CreatedBy(x) \cup resp'.body
                ELSE CreatedBy(x)]_vars

\* the first identity lists its one binder while the second has another
C13_Witness ==
    /\ resp.op = "list_binders"
    /\ 1 \in Bearers
    /\ Cardinality(resp.body) = 1
    /\ CreatedBy(2) # {}

----------------------------------------------------------------------------
\* C14: upload then download is a round trip.  In the step in which an
\* upload is answered 201, a download of the new document by the binder's
\* owner would return the bytes and the original filename the upload carried,
\* directory components included; no later step, another upload of the same
\* original filename among them, changes what a download of an existing
\* document returns to its owner; and a download the owner made was answered
\* with just that.
OwnerOfDocument(d) == binders[documents[d].binder_id].owner_id

C14_UploadDownloadRoundTrip ==
    /\ [](resp.op = "download_document" /\ resp.arg \in 1..Len(documents)
            /\ OwnerOfDocument(resp.arg) \in Bearers
          => <<resp.status, resp.body>> =
                LET r == download_result(resp.arg, OwnerOfDocument(resp.arg)) IN
                <<r.status, r.body>>)
    /\ [][/\ \A d \in 1..Len(documents) :
                download_result(d, OwnerOfDocument(d))' =
                   download_result(d, OwnerOfDocument(d))
          /\ \A d \in (Len(documents) + 1)..Len(documents') :
                /\ resp'.op = "upload_document" /\ resp'.status = 201
                /\ LET r == download_result(d, OwnerOfDocument(d))' IN
                   /\ r.status = 200
                   /\ \E got \in r.body :
                         /\ r.body = {got}
                         /\ \E u \in resp'.file :
                               /\ resp'.file = {u}
                               /\ got.content = u.data
                               /\ got.filename = u.filename]_vars

\* the owner downloads the first of two documents uploaded under one
\* original filename with different bytes
C14_Witness ==
    /\ resp.op = "download_document"
    /\ resp.arg = 1
    /\ resp.status = 200
    /\ Len(documents) = 2
    /\ documents[1].original_name = documents[2].original_name
    /\ \E got \in resp.body : got.content # files[documents[2].filename]

\* C15: every stored file name, that of a file in the storage root or of a
\* document row, is one path component (it holds no separator), made of a
\* random token and, for a row, the last component of the row's original
\* filename; the path of every file written and of every file a download
\* read is the storage root plus that one component, a direct child of the
\* root; the original filename supplied with the upload is stored in the row
\* as it came.
DirectChild(path) ==
    /\ Len(path) = Len(upload_dir) + 1
    /\ SubSeq(path, 1, Len(upload_dir)) = upload_dir

SafeStoredName(name) ==
    /\ Len(name) = 1
    /\ name[1][1] # ""
    /\ DirectChild(StoragePath(name))

C15_StoredNameSafe ==
    /\ \A name \in DOMAIN files : SafeStoredName(name)
    /\ \A d \in 1..Len(documents) :
          /\ SafeStoredName(documents[d].filename)
          /\ documents[d].filename[1][2] =
                documents[d].original_name[Len(documents[d].original_name)]
    /\ resp.op = "upload_document" /\ resp.status = 201
         => \A u \in resp.file :
               documents[Len(documents)].original_name = u.filename
    /\ resp.op = "download_document"
         => \A got \in resp.body : DirectChild(got.path)

\* a download of a document uploaded as ../../etc/passwd
C15_Witness ==
    /\ resp.op = "download_document"
    /\ resp.status = 200
    /\ documents[resp.arg].original_name = <<"..", "..", "etc", "passwd">>
    /\ \E got \in resp.body : got.filename = <<"..", "..", "etc", "passwd">>

----------------------------------------------------------------------------
(* Upload policy *)

\* an upload by the owner of the binder it names
OwnersUpload ==
    /\ resp.op = "upload_document"
    /\ resp.arg \in 1..Len(binders)
    /\ binders[resp.arg].owner_id \in Bearers

\* C16: an upload by the binder's owner whose content is larger than
\* max_upload_size_bytes is answered 413 (PayloadTooLarge), and no file in the
\* storage root and no document row holds the bytes of such an upload.
TooLarge(data) == data.size > max_upload_size_bytes

C16_OversizedRejected ==
    /\ \A u \in resp.file : OwnersUpload /\ TooLarge(u.data) => resp.status = 413
    /\ \A name \in DOMAIN files :
          \A u \in Uploads : TooLarge(u.data) => files[name].bytes # u.data.bytes

\* C17: an upload by the binder's owner whose declared content type is not
\* one of allowed_content_types is answered 415 (UnsupportedMediaType), and
\* no document row of such a content type and no file of such an upload is
\* stored.
C17_UnlistedTypeRejected ==
    /\ \A u \in resp.file :
          OwnersUpload /\ u.content_type \notin allowed_content_types
            => resp.status = 415
    /\ \A d \in 1..Len(documents) :
          documents[d].content_type \in allowed_content_types
    /\ \A name \in DOMAIN files :
          \A u \in Uploads :
             u.content_type \notin allowed_content_types
               => files[name].bytes # u.data.bytes

----------------------------------------------------------------------------
\* C18: in every state, those left by an upload that failed at its file
\* write or at its commit among them, every document row names a file that is
\* in the storage root with the whole of the bytes a client sent; an upload
\* that failed at either step is answered 500, adds no document row, and
\* leaves every file that was there as it was, adding at most one file that
\* no row names.
Whole(bytes) == \E u \in Uploads : bytes = u.data

Referenced == {documents[d].filename : d \in 1..Len(documents)}

C18_RowsNameWholeFiles ==
    /\ [](\A name \in Referenced : name \in DOMAIN files /\ Whole(files[name]))
    /\ [][resp'.op = "upload_document" /\ resp'.fault \in {"write", "commit"}
            => /\ resp'.status = 500
               /\ documents' = documents
               /\ \A name \in DOMAIN files :
                     name \in DOMAIN files' /\ files'[name] = files[name]
               /\ Cardinality(DOMAIN files' \ DOMAIN files) <= 1
               /\ \A name \in DOMAIN files' \ DOMAIN files : name \notin Referenced'
               /\ resp'.fault = "commit"
                     => \A name \in DOMAIN files' \ DOMAIN files : Whole(files'[name])]_vars

\* a document downloaded while the partial file of a failed upload lies in
\* the storage root
C18_Witness ==
    /\ resp.op = "download_document"
    /\ resp.status = 200
    /\ \E name \in DOMAIN files : ~Whole(files[name]) /\ name \notin Referenced

----------------------------------------------------------------------------
(* Audit *)

MutationOps == {"create_binder", "create_task", "mark_done", "upload_document"}

\* The row a request that was answered with success wrote: its table and id.
Mutated ==
    IF resp.op = "create_binder"
    THEN [operation |-> "create", resource_type |-> "binder", ids |-> resp.body]
    ELSE IF resp.op = "create_task"
    THEN [operation |-> "create", resource_type |-> "task", ids |-> resp.body]
    ELSE IF resp.op = "mark_done"
    THEN [operation |-> "update", resource_type |-> "task", ids |-> {resp.arg}]
    ELSE [operation |-> "create", resource_type |-> "document",
          ids |-> {Len(documents)}]

\* The mutation an audit record tells of is in the tables, made by the
\* identity the record names.
Committed(record) ==
    LET id == record.resource_id
        by(owner) == users[owner].email = record.user_email IN
    IF record.resource_type = "binder"
    THEN id \in 1..Len(binders) /\ by(binders[id].owner_id)
    ELSE IF record.resource_type = "task"
    THEN /\ id \in 1..Len(tasks)
         /\ by(binders[tasks[id].binder_id].owner_id)
         /\ record.operation = "update" => tasks[id].status = "done"
    ELSE /\ id \in 1..Len(documents)
         /\ by(binders[documents[id].binder_id].owner_id)

\* C19: a create-binder, create-task, mark-done or upload request that is
\* answered with success emitted exactly one audit record, which names the
\* operation, the resource type, the id of the row written and the email of
\* the identity whose token the request carried; every record emitted tells
\* of a mutation that is committed in the state in which it is emitted; a
\* request that is not answered with success, one whose commit failed among
\* them, and a request that only reads, emitted none.
C19_OneAuditRecordAfterCommit ==
    /\ resp.op \in MutationOps /\ Granted
         => /\ Len(resp.emitted) = 1
            /\ resp.emitted[1].operation = Mutated.operation
            /\ resp.emitted[1].resource_type = Mutated.resource_type
            /\ Mutated.ids = {resp.emitted[1].resource_id}
            /\ \E x \in Bearers :
                  /\ Bearers = {x}
                  /\ resp.emitted[1].user_email = users[x].email
    /\ \A i \in 1..Len(resp.emitted) : Committed(resp.emitted[i])
    /\ ~(resp.op \in MutationOps /\ Granted) => resp.emitted = <<>>

\* the owner marked a task done and one update record was emitted
C19_Witness ==
    /\ resp.op = "mark_done"
    /\ resp.status = 200
    /\ resp.fault = "none"
    /\ resp.emitted = <<log_crud_event("update", "task", resp.arg, "a@x.com")>>

\* C20: a mutation whose audit record could not be written is committed all
\* the same: the step of a request that failed at its audit write adds the
\* binder, task or document row, or leaves the task done, and no step after
\* it, or any other step, removes a row, changes the
\* binder of a task or document, the owner of a binder or the file of a
\* document, or takes a task back from done.
RowsKept ==
    /\ Len(binders') >= Len(binders)
    /\ \A b \in 1..Len(binders) : binders'[b] = binders[b]
    /\ Len(tasks') >= Len(tasks)
    /\ \A t \in 1..Len(tasks) :
          /\ tasks'[t].binder_id = tasks[t].binder_id
          /\ tasks[t].status = "done" => tasks'[t].status = "done"
    /\ Len(documents') >= Len(documents)
    /\ \A d \in 1..Len(documents) : documents'[d] = documents[d]

C20_AuditFailureKeepsMutation ==
    [][/\ RowsKept
       /\ (resp' # resp /\ resp'.fault = "audit")
            => /\ resp'.op = "create_binder"
                     => /\ Len(binders') = Len(binders) + 1
                        /\ binders'[Len(binders')].owner_id \in Bearers'
               /\ resp'.op = "create_task"
                     => /\ Len(tasks') = Len(tasks) + 1
                        /\ tasks'[Len(tasks')].binder_id = resp'.arg
               /\ resp'.op = "mark_done"
                     => tasks'[resp'.arg].status = "done"
               /\ resp'.op = "upload_document"
                     => /\ Len(documents') = Len(documents) + 1
                        /\ documents'[Len(documents')].binder_id = resp'.arg
                        /\ documents'[Len(documents')].filename \in DOMAIN files']_vars

\* a mark-done whose audit record could not be written: the task is done
C20_Witness ==
    /\ resp.op = "mark_done"
    /\ resp.status = 200
    /\ resp.fault = "audit"
    /\ tasks[resp.arg].status = "done"

----------------------------------------------------------------------------
\* What the read endpoints answer an identity, for every id it can name:
\* list-binders, and per binder id list-tasks, list-documents and the report,
\* and per document id the download.
Reads(me) ==
    [binders |-> BindersOf(me),
     tasks |-> [b \in Ids(binders) |-> list_tasks_result(b, me)],
     documents |-> [b \in Ids(binders) |-> list_documents_result(b, me)],
     downloads |-> [d \in Ids(documents) |-> download_result(d, me)],
     reports |-> [b \in Ids(binders) |-> binder_report_result(b, me)]]

\* C21: a request that ends in an error response (400 and above: conflict,
\* bad credentials, no token, not found, a server error) leaves what
\* list-binders, list-tasks, list-documents, download and report answer the
\* same as before it, for every identity; a non-owner's create-task,
\* mark-done and upload are among them.  (Either nothing stored changed and
\* the clock stood still, or what changed shows in no answer.)
C21_ErrorsChangeNoAnswer ==
    [][resp'.status >= 400 =>
          \/ UNCHANGED <<db, now>>
          \/ \A me \in 1..Len(users) : Reads(me)' = Reads(me)]_vars

\* an upload of the owner that failed while the file was written: part of
\* the file is in the storage root, and no row names it
C21_Witness ==
    /\ resp.op = "upload_document"
    /\ resp.status = 500
    /\ resp.fault = "write"
    /\ resp.me # 0
    /\ \E name \in DOMAIN files :
          \A d \in 1..Len(documents) : documents[d].filename # name

----------------------------------------------------------------------------
Range(seq) == {seq[i] : i \in 1..Len(seq)}

NoRepeats(seq) == Cardinality(Range(seq)) = Len(seq)

\* due dates ascending, and no task without a due date ahead of one with
DueAscending(section) ==
    \A i, j \in 1..Len(section) :
        i < j =>
            LET a == tasks[section[i]].due_date
                b == tasks[section[j]].due_date IN
            /\ (a # NoDate /\ b # NoDate) => a <= b
            /\ a = NoDate => b = NoDate

NewestFirst(docs) ==
    \A i, j \in 1..Len(docs) :
        i < j => documents[docs[i]].uploaded_at >= documents[docs[j]].uploaded_at

\* C22: the report of a binder holds each task of the binder once, in the
\* open section if its status is "open" and in the completed section if it
\* is "done", each section by due date ascending with the tasks that have no
\* due date after all that have one, and the binder's documents by upload
\* time descending; rows of other binders are in none of them.
C22_ReportIsSortedProjection ==
    (resp.op = "binder_report" /\ resp.status = 200) =>
        /\ Range(resp.body.open_tasks) =
              {t \in TasksOf(resp.arg) : tasks[t].status = "open"}
        /\ Range(resp.body.done_tasks) =
              {t \in TasksOf(resp.arg) : tasks[t].status = "done"}
        /\ Range(resp.body.documents) = DocumentsOf(resp.arg)
        /\ NoRepeats(resp.body.open_tasks \o resp.body.done_tasks)
        /\ NoRepeats(resp.body.documents)
        /\ DueAscending(resp.body.open_tasks)
        /\ DueAscending(resp.body.done_tasks)
        /\ NewestFirst(resp.body.documents)

----------------------------------------------------------------------------
\* ENV names development mode: not set, or one of its usual names
DevelopmentMode(ENV) == lower(ENV) \in {"", "dev", "development"}

\* C23: a process with no signing secret configured, in an environment other
\* than development mode, fails at startup: it is never up and serving.
C23_NoSecretNoService ==
    process.state = "serving" =>
        process.secret_key # NoSecret \/ DevelopmentMode(process.ENV)

----------------------------------------------------------------------------
\* C24: an authenticated endpoint that turns a request away for its token
\* answers with one status and one detail, the ones it gives a malformed
\* token, whatever is wrong: no token, a bad signature, an expired token, a
\* token without a subject, a subject that is not registered.
C24_OneAuthenticationFailure ==
    (resp.op \in ResourceOps /\ resp.status = 401) =>
        Answer = <<get_current_user(Garbage).status, get_current_user(Garbage).detail>>

----------------------------------------------------------------------------
Accepted(token) == get_current_user(token).status = 200

\* C25: a token that is accepted stays accepted, for the same identity, at
\* every later time up to its expiry, whatever happens in between: another
\* login of its identity, a failed login, a registration, a new binder.  A
\* new token takes nothing from an earlier one.
C25_TokensAreNotRevoked ==
    [][\A i \in issued :
          (Accepted(i.token) /\ now' <= i.token.exp) =>
              /\ Accepted(i.token)'
              /\ get_current_user(i.token)'.me = get_current_user(i.token).me]_vars

\* two tokens of one identity, minted at different times, and a request made
\* with the earlier one after the later one was minted is served
C25_Witness ==
    /\ resp.op = "list_binders"
    /\ resp.status = 200
    /\ \E i, j \in issued :
          /\ i.uid = j.uid
          /\ i.token.exp < j.token.exp
          /\ resp.token = i.token
          /\ resp.at + access_token_expire_minutes >= j.token.exp

----------------------------------------------------------------------------
\* C26: create_access_token(subject, expires_minutes) sets the expiry to the
\* time of the call plus expires_minutes for every expires_minutes the
\* caller passes, 0 too, and to the time of the call plus the default
\* lifetime of 7 days only when the caller passes none.
C26_ExpiryIsIssueTimePlusLifetime ==
    resp.op = "create_access_token" =>
        \A token \in resp.body :
            token.exp = resp.at + (IF resp.arg[2] = NoMinutes
                                   THEN access_token_expire_minutes
                                   ELSE resp.arg[2])

----------------------------------------------------------------------------
\* C27: a task is created with status "open" whatever the body of the
\* request says, in the binder the request names, which the creating
\* identity owns; and in every state each task has status "open" or "done"
\* and one binder, which exists.
C27_TasksStartOpenInOwnBinder ==
    /\ \A t \in 1..Len(tasks) :
          /\ tasks[t].status \in {"open", "done"}
          /\ tasks[t].binder_id \in 1..Len(binders)
    /\ (resp.op = "create_task" /\ resp.status = 201) =>
          /\ Bearers # {}
          /\ \A t \in resp.body, x \in Bearers :
                /\ t = Len(tasks)
                /\ tasks[t].status = "open"
                /\ tasks[t].binder_id = resp.arg
                /\ binders[resp.arg].owner_id = x

\* a task just created by its binder's owner with a request whose body
\* said "done"
C27_Witness ==
    /\ resp.op = "create_task"
    /\ resp.status = 201
    /\ resp.body = {1}
    /\ tasks[1].status = "open"
    /\ \A x \in Bearers : binders[tasks[1].binder_id].owner_id = x

----------------------------------------------------------------------------
\* C28: of two registrations of one unregistered email that both pass the
\* existence check before either commits, one creates the identity and the
\* other is answered as a duplicate registration is, 400 "Email already
\* registered": no registration is answered with a server error, and no
\* email has two identities.
C28_RacingRegistrationConflicts ==
    /\ \A e \in Emails : Cardinality({u \in 1..Len(users) : users[u].email = e}) <= 1
    /\ (resp.op = "register" /\ resp.status # 201) =>
          Answer = <<400, "Email already registered">>

----------------------------------------------------------------------------
\* C29: what list-binders, list-tasks, list-documents, download and report
\* answer an identity X about its own binders is the same in two runs that
\* differ only in what other identities do.  One such pair is a run and the
\* same run with the requests of the others left out, in which X's binders
\* are the only rows of the table and so carry the ids 1, 2, ...: list-binders
\* answers X with those ids in every run.
C29_ListBindersAsIfAlone ==
    (resp.op = "list_binders" /\ resp.status = 200) =>
        resp.body = 1..Cardinality(resp.body)

----------------------------------------------------------------------------
\* the day of the request that resp holds
DayOfRequest == StartDay + (resp.at \div MinutesPerDay)

\* the tasks list-tasks would flag, over all binders
Flagged == {t \in 1..Len(tasks) : TaskOut(t).is_overdue}

\* C30: list-tasks flags a task is_overdue exactly when its status is not
\* "done" and it has a due date before the day of the request: not a task
\* without a due date, not one due that day or later, not a done one.  In
\* every state tasks_overdue of the metrics is the number of tasks that
\* list-tasks would flag, all binders together.
C30_OverdueIsOpenAndPastDue ==
    /\ (resp.op = "list_tasks" /\ resp.status = 200) =>
          \A out \in resp.body :
              out.is_overdue <=>
                  /\ out.status # "done"
                  /\ out.due_date # NoDate
                  /\ out.due_date < DayOfRequest
    /\ MetricsResponse.tasks_overdue = Cardinality(Flagged)

\* a list of two tasks on the day one of them is due: the one due the day
\* before is flagged, the one due that day is not
C30_Witness ==
    /\ resp.op = "list_tasks"
    /\ resp.status = 200
    /\ \E late, due \in resp.body :
          /\ late.due_date = DayOfRequest - 1
          /\ late.is_overdue
          /\ due.due_date = DayOfRequest
          /\ ~due.is_overdue
    /\ MetricsResponse.tasks_overdue >= 1

====
